---- MODULE Spec2Model ----
(***************************************************************************)
(* ImAgInE: the prompt resolution endpoint (POST /api/generate) and the    *)
(* AR placement component (ARScene), modelled as state machines.           *)
(*                                                                         *)
(* Strings that the code splits, lowercases or compares are sequences of   *)
(* one-character strings; names that are only looked up (category names,   *)
(* URLs, messages) are plain strings.                                      *)
(***************************************************************************)
EXTENDS Integers, Sequences, FiniteSets, TLC

(***************************************************************************)
(* Bounds of the model                                                     *)
(***************************************************************************)
\* number of space-separated pieces of a generated prompt
MaxWords == 2
\* number of entries of the keywords list of a JSON answer
MaxAIKeywords == 1

(***************************************************************************)
(* Part 1 - prompt resolution: tables                                      *)
(***************************************************************************)
BoxUrl == "https://raw.githubusercontent.com/KhronosGroup/glTF-Sample-Models/master/2.0/Box/glTF/Box.gltf"
DuckUrl == "https://raw.githubusercontent.com/KhronosGroup/glTF-Sample-Models/master/2.0/Duck/glTF/Duck.gltf"
DragonUrl == "https://raw.githubusercontent.com/KhronosGroup/glTF-Sample-Models/master/2.0/Dragon/glTF/Dragon.gltf"
BrainStemUrl == "https://raw.githubusercontent.com/KhronosGroup/glTF-Sample-Models/master/2.0/BrainStem/glTF/BrainStem.gltf"
LanternUrl == "https://raw.githubusercontent.com/KhronosGroup/glTF-Sample-Models/master/2.0/Lantern/glTF/Lantern.gltf"
FoxUrl == "https://raw.githubusercontent.com/KhronosGroup/glTF-Sample-Models/master/2.0/Fox/glTF/Fox.gltf"
SoldierUrl == "https://raw.githubusercontent.com/KhronosGroup/glTF-Sample-Models/master/2.0/Soldier/glTF/Soldier.gltf"
TruckUrl == "https://raw.githubusercontent.com/KhronosGroup/glTF-Sample-Models/master/2.0/CesiumMilkTruck/glTF/CesiumMilkTruck.gltf"

\* the asset table of the endpoint; the key "default" is the designated default
fallbackModels ==
  [k \in {"cube", "fish", "dragon", "robot", "lantern", "animal", "human",
          "vehicle", "default"} |->
     CASE k = "cube" -> BoxUrl
       [] k = "fish" -> DuckUrl
       [] k = "dragon" -> DragonUrl
       [] k = "robot" -> BrainStemUrl
       [] k = "lantern" -> LanternUrl
       [] k = "animal" -> FoxUrl
       [] k = "human" -> SoldierUrl
       [] k = "vehicle" -> TruckUrl
       [] OTHER -> BoxUrl]

\* the keyword table, in declaration order (Object.entries keeps it)
modelCategories ==
  << [category |-> "fish", keywords |->
         << <<"f", "i", "s", "h">>,
            <<"s", "w", "i", "m", "m", "i", "n", "g">>,
            <<"a", "q", "u", "a", "t", "i", "c">>,
            <<"m", "a", "r", "i", "n", "e">>,
            <<"s", "e", "a">>,
            <<"o", "c", "e", "a", "n">>,
            <<"w", "a", "t", "e", "r">> >>],
     [category |-> "dragon", keywords |->
         << <<"d", "r", "a", "g", "o", "n">>,
            <<"m", "y", "t", "h", "i", "c", "a", "l">>,
            <<"f", "a", "n", "t", "a", "s", "y">>,
            <<"f", "l", "y", "i", "n", "g">>,
            <<"c", "r", "e", "a", "t", "u", "r", "e">>,
            <<"m", "a", "g", "i", "c", "a", "l">>,
            <<"w", "i", "n", "g", "s">> >>],
     [category |-> "robot", keywords |->
         << <<"r", "o", "b", "o", "t">>,
            <<"m", "e", "c", "h", "a", "n", "i", "c", "a", "l">>,
            <<"m", "a", "c", "h", "i", "n", "e">>,
            <<"a", "n", "d", "r", "o", "i", "d">>,
            <<"t", "e", "c", "h">>,
            <<"f", "u", "t", "u", "r", "i", "s", "t", "i", "c">>,
            <<"a", "r", "t", "i", "f", "i", "c", "i", "a", "l">> >>],
     [category |-> "lantern", keywords |->
         << <<"l", "a", "n", "t", "e", "r", "n">>,
            <<"l", "i", "g", "h", "t">>,
            <<"l", "a", "m", "p">>,
            <<"i", "l", "l", "u", "m", "i", "n", "a", "t", "i", "o", "n">>,
            <<"g", "l", "o", "w">>,
            <<"l", "i", "g", "h", "t", "i", "n", "g">> >>],
     [category |-> "animal", keywords |->
         << <<"a", "n", "i", "m", "a", "l">>,
            <<"c", "r", "e", "a", "t", "u", "r", "e">>,
            <<"b", "e", "a", "s", "t">>,
            <<"w", "i", "l", "d", "l", "i", "f", "e">>,
            <<"n", "a", "t", "u", "r", "e">>,
            <<"l", "i", "v", "i", "n", "g">> >>],
     [category |-> "human", keywords |->
         << <<"h", "u", "m", "a", "n">>,
            <<"p", "e", "r", "s", "o", "n">>,
            <<"m", "a", "n">>,
            <<"w", "o", "m", "a", "n">>,
            <<"f", "i", "g", "u", "r", "e">>,
            <<"c", "h", "a", "r", "a", "c", "t", "e", "r">>,
            <<"h", "u", "m", "a", "n", "o", "i", "d">> >>],
     [category |-> "vehicle", keywords |->
         << <<"v", "e", "h", "i", "c", "l", "e">>,
            <<"c", "a", "r">>,
            <<"t", "r", "u", "c", "k">>,
            <<"t", "r", "a", "n", "s", "p", "o", "r", "t">>,
            <<"a", "u", "t", "o", "m", "o", "b", "i", "l", "e">>,
            <<"t", "r", "a", "n", "s", "p", "o", "r", "t", "a", "t", "i", "o", "n">> >>],
     [category |-> "cube", keywords |->
         << <<"c", "u", "b", "e">>,
            <<"b", "o", "x">>,
            <<"s", "q", "u", "a", "r", "e">>,
            <<"g", "e", "o", "m", "e", "t", "r", "i", "c">>,
            <<"s", "i", "m", "p", "l", "e">> >>] >>

(***************************************************************************)
(* Part 1 - prompt resolution: string helpers                              *)
(***************************************************************************)
Upper26 == <<"A","B","C","D","E","F","G","H","I","J","K","L","M",
             "N","O","P","Q","R","S","T","U","V","W","X","Y","Z">>
Lower26 == <<"a","b","c","d","e","f","g","h","i","j","k","l","m",
             "n","o","p","q","r","s","t","u","v","w","x","y","z">>

\* the lowercase letter of every uppercase letter
lowerOf ==
  [c \in {Upper26[i] : i \in 1..26} |->
     Lower26[CHOOSE i \in 1..26 : Upper26[i] = c]]

\* String.prototype.toLowerCase, one character
toLowerCaseChar(c) == IF c \in DOMAIN lowerOf THEN lowerOf[c] ELSE c

\* String.prototype.toLowerCase
RECURSIVE toLowerCase(_)
toLowerCase(s) ==
  IF s = << >> THEN << >>
  ELSE Append(toLowerCase(SubSeq(s, 1, Len(s) - 1)), toLowerCaseChar(s[Len(s)]))

\* String.prototype.split(' '): the pieces between single spaces; empty
\* pieces are kept, and the empty string splits into one empty piece
RECURSIVE split(_)
split(s) ==
  IF \A i \in 1..Len(s) : s[i] # " "
  THEN << s >>
  ELSE LET i == CHOOSE k \in 1..Len(s) :
                  s[k] = " " /\ \A j \in 1..(k-1) : s[j] # " "
       IN  << SubSeq(s, 1, i-1) >> \o split(SubSeq(s, i+1, Len(s)))

\* Array.prototype.filter(Boolean) on an array of strings: drops ''
filterBoolean(a) == SelectSeq(a, LAMBDA x : x # << >>)

\* Array.prototype.includes on an array of strings: whole-element equality
\* a test that also accepts a keyword found inside a longer token
includes_substring(a, x) ==
  \E i \in 1..Len(a) :
    \E j \in 0..(Len(x) - Len(a[i])) : SubSeq(x, j + 1, j + Len(a[i])) = a[i]

includes(a, x) == \E i \in 1..Len(a) : a[i] = x

\* String.prototype.trim() === '' for the characters the model uses
trimIsEmpty(s) == \A i \in 1..Len(s) : s[i] = " "

(***************************************************************************)
(* Part 1 - prompt resolution: generateModelWithAI and POST                *)
(***************************************************************************)
PlaceholderDescription == "Failed to generate AI description"
AiText == "text of the completion service"
NoValue == "undefined"

\* what the catch block of generateModelWithAI returns
\* the catch block reporting its fallback as generated by the service
aiCatchResult_generated ==
  [modelUrl |-> fallbackModels["default"],
   modelDescription |-> PlaceholderDescription,
   aiGenerated |-> TRUE,
   modelType |-> "default"]

aiCatchResult ==
  [modelUrl |-> fallbackModels["default"],
   modelDescription |-> PlaceholderDescription,
   aiGenerated |-> FALSE,
   modelType |-> "default"]

\* the value the code works with after JSON.parse and its inner catch
aiResponse(prompt, answer) ==
  IF answer.kind = "json"
  THEN [mainCategory |-> answer.mainCategory, keywords |-> answer.keywords]
  ELSE [mainCategory |-> << >>, keywords |-> split(toLowerCase(prompt))]

\* the keyword list built from the answer alone, the prompt's tokens left out
allKeywords_answerOnly(prompt, answer) ==
  filterBoolean(aiResponse(prompt, answer).keywords
                \o << aiResponse(prompt, answer).mainCategory >>)

\* prompt tokens, then the answer's keywords, then its mainCategory
allKeywords(prompt, answer) ==
  filterBoolean(split(toLowerCase(prompt))
                \o aiResponse(prompt, answer).keywords
                \o << aiResponse(prompt, answer).mainCategory >>)

\* allKeywords.reduce(...): one point per element that is a keyword
RECURSIVE score(_, _)
score(keywords, all) ==
  IF all = << >> THEN 0
  ELSE score(keywords, SubSeq(all, 1, Len(all) - 1))
       + (IF includes(keywords, toLowerCase(all[Len(all)])) THEN 1 ELSE 0)

\* Object.entries(modelCategories).map(...), for the first n categories
RECURSIVE scoreEntries(_, _)
scoreEntries(n, all) ==
  IF n = 0 THEN << >>
  ELSE Append(scoreEntries(n - 1, all),
              [category |-> modelCategories[n].category,
               score |-> score(modelCategories[n].keywords, all)])

categoryScores(prompt, answer) ==
  scoreEntries(Len(modelCategories), allKeywords(prompt, answer))

\* a sort step that puts x in front of the elements of equal score
sortInsert_unstable(sorted, x) ==
  LET n == Cardinality({i \in 1..Len(sorted) : sorted[i].score > x.score})
  IN  SubSeq(sorted, 1, n) \o << x >> \o SubSeq(sorted, n + 1, Len(sorted))

\* one step of the stable sort with comparator b.score - a.score: x goes
\* behind every element whose score is at least its own
sortInsert(sorted, x) ==
  LET n == Cardinality({i \in 1..Len(sorted) : sorted[i].score >= x.score})
  IN  SubSeq(sorted, 1, n) \o << x >> \o SubSeq(sorted, n + 1, Len(sorted))

\* Array.prototype.sort((a, b) => b.score - a.score), stable
RECURSIVE sortByScore(_)
sortByScore(a) ==
  IF a = << >> THEN << >>
  ELSE sortInsert(sortByScore(SubSeq(a, 1, Len(a) - 1)), a[Len(a)])

bestMatch(prompt, answer) == sortByScore(categoryScores(prompt, answer))[1]

\* answers on which the code after the call raises a TypeError: JSON null
\* (aiResponse.keywords) and a keywords entry that is not a string
\* (keyword.toLowerCase)
answerThrows(answer) == answer.kind \in {"jsonNull", "jsonNumKeyword"}

\* the call itself fails: no API key, or the service call rejects
\* a failure test without the check of the API key
callFails_ignoresKey(apiKey, answer) == answer.kind = "reject"

callFails(apiKey, answer) == ~apiKey \/ answer.kind = "reject"

\* a resolution that takes the first sorted category even at score zero
generateModelWithAI_noDefault(prompt, apiKey, answer) ==
  IF callFails(apiKey, answer) \/ answerThrows(answer)
  THEN aiCatchResult
  ELSE LET best == bestMatch(prompt, answer)
       IN  [modelUrl |-> fallbackModels[best.category],
            modelDescription |-> AiText,
            aiGenerated |-> TRUE,
            modelType |-> best.category]

generateModelWithAI(prompt, apiKey, answer) ==
  IF callFails(apiKey, answer) \/ answerThrows(answer)
  THEN aiCatchResult
  ELSE LET best == bestMatch(prompt, answer)
           modelType == IF best.score > 0 THEN best.category ELSE "default"
       IN  [modelUrl |-> fallbackModels[modelType],
            modelDescription |-> AiText,
            aiGenerated |-> TRUE,
            modelType |-> modelType]

\* `!prompt` of the handler: a missing prompt or the empty string
promptIsFalsy(body) == body.kind = "noPrompt" \/ body.prompt = << >>

validationResponse ==
  [status |-> 400, error |-> "Prompt is required", url |-> NoValue,
   description |-> NoValue, aiGenerated |-> NoValue, modelType |-> NoValue]

\* a 500 response without the url field
errorResponse_noUrl ==
  [status |-> 500, error |-> "Failed to generate model", url |-> NoValue,
   description |-> NoValue, aiGenerated |-> NoValue, modelType |-> NoValue]

errorResponse ==
  [status |-> 500, error |-> "Failed to generate model",
   url |-> fallbackModels["default"],
   description |-> NoValue, aiGenerated |-> NoValue, modelType |-> NoValue]

successResponse(modelData) ==
  [status |-> 200, error |-> NoValue, url |-> modelData.modelUrl,
   description |-> modelData.modelDescription,
   aiGenerated |-> modelData.aiGenerated,
   modelType |-> modelData.modelType]

(***************************************************************************)
(* Part 1 - prompt resolution: inputs of the model                         *)
(***************************************************************************)
W_empty == << >>
W_red == <<"r", "e", "d">>
W_Dragon == <<"D", "r", "a", "g", "o", "n">>
W_dragonfly == <<"d", "r", "a", "g", "o", "n", "f", "l", "y">>
W_robot == <<"r", "o", "b", "o", "t">>
W_lantern == <<"l", "a", "n", "t", "e", "r", "n">>
W_light == <<"l", "i", "g", "h", "t">>
W_Light == <<"L", "i", "g", "h", "t">>
W_creature == <<"c", "r", "e", "a", "t", "u", "r", "e">>
W_beast == <<"b", "e", "a", "s", "t">>

\* "A red dragon breathing fire"
ScenarioPrompt ==
  <<"A", " ", "r", "e", "d", " ", "d", "r", "a", "g", "o", "n", " ",
    "b", "r", "e", "a", "t", "h", "i", "n", "g", " ", "f", "i", "r", "e">>

\* "lantern light robot": two lantern keywords, one robot keyword
TwoToOnePrompt ==
  <<"l", "a", "n", "t", "e", "r", "n", " ", "l", "i", "g", "h", "t", " ",
    "r", "o", "b", "o", "t">>

\* "robot lantern"
TiePrompt ==
  <<"r", "o", "b", "o", "t", " ", "l", "a", "n", "t", "e", "r", "n">>

PromptWords == {W_empty, W_red, W_Dragon, W_dragonfly, W_robot, W_lantern, W_light}
AIWords == {W_creature, W_Light, W_beast}
AIMainCategories == {W_empty, W_lantern}

\* the pieces joined by single spaces
RECURSIVE join(_)
join(ws) ==
  IF Len(ws) = 1 THEN ws[1]
  ELSE join(SubSeq(ws, 1, Len(ws) - 1)) \o << " " >> \o ws[Len(ws)]

SeqsUpTo(S, n) == UNION {[1..k -> S] : k \in 0..n}

Prompts ==
  {join(ws) : ws \in (SeqsUpTo(PromptWords, MaxWords) \ {<< >>})}
  \cup {ScenarioPrompt, TwoToOnePrompt, TiePrompt}

\* request bodies: not JSON, JSON without prompt, JSON with a string prompt
Bodies ==
  {[kind |-> "malformed", prompt |-> << >>],
   [kind |-> "noPrompt", prompt |-> << >>]}
  \cup {[kind |-> "prompt", prompt |-> p] : p \in Prompts}

\* outcomes of the text-completion call: it rejects (timeout, network or
\* HTTP error), or it returns text that is not JSON, JSON null, a JSON object
\* with a number among its keywords, or a JSON object with string fields
Answers ==
  {[kind |-> k, mainCategory |-> << >>, keywords |-> << >>] :
      k \in {"reject", "text", "jsonNull", "jsonNumKeyword"}}
  \cup {[kind |-> "json", mainCategory |-> m, keywords |-> ks] :
          m \in AIMainCategories, ks \in SeqsUpTo(AIWords, MaxAIKeywords)}

NoAnswer == [kind |-> "none", mainCategory |-> << >>, keywords |-> << >>]
NoBody == [kind |-> "none", prompt |-> << >>]
NoResponse ==
  [status |-> 0, error |-> NoValue, url |-> NoValue,
   description |-> NoValue, aiGenerated |-> NoValue, modelType |-> NoValue]

(***************************************************************************)
(* The page: what the user types and what fetch('/api/generate') gives     *)
(***************************************************************************)
\* values of the prompt input: empty, blank, and two descriptions
PagePrompts == {<< >>, << " " >>, ScenarioPrompt, TiePrompt}

\* the error state of the page: null, or the message shown
NoError == [shown |-> FALSE, text |-> "", detail |-> "", status |-> 0]
PromptError ==
  [shown |-> TRUE, text |-> "Please enter a prompt", detail |-> "", status |-> 0]
generateError(detail, status) ==
  [shown |-> TRUE, text |-> "Failed to generate AR model: ",
   detail |-> detail, status |-> status]

\* a 2xx response of the endpoint for a found asset, as the page reads it
\* from the JSON text (aiGenerated is the literal true or false)
foundResponse(url, generated) ==
  [status |-> 200, error |-> NoValue, url |-> url,
   description |-> IF generated THEN AiText ELSE PlaceholderDescription,
   aiGenerated |-> IF generated THEN "true" ELSE "false",
   modelType |-> "dragon"]

\* responses the page can receive: those of the endpoint, a 2xx response
\* without url, and a non-2xx response of the hosting layer without error
PageResponses ==
  {errorResponse, validationResponse,
   [NoResponse EXCEPT !.status = 200],
   [NoResponse EXCEPT !.status = 502]}
  \cup {foundResponse(u, g) : u \in {BoxUrl, DragonUrl}, g \in BOOLEAN}

\* how one fetch ends: it rejects (network error), or it resolves with a
\* response whose body is JSON or is not
PageOutcomes ==
  {[kind |-> "rejects", json |-> FALSE, data |-> NoResponse]}
  \cup {[kind |-> "response", json |-> j, data |-> r] :
          j \in BOOLEAN, r \in PageResponses}

NoOutcome == [kind |-> "none", json |-> FALSE, data |-> NoResponse]

\* the state of Home when it mounts; pc is where handleGenerate stands and
\* last is how its last request ended
pageMounted ==
  [prompt |-> << >>, modelUrl |-> "null", modelDescription |-> "null",
   loading |-> FALSE, error |-> NoError, aiGenerated |-> FALSE,
   modelType |-> "null", pc |-> "idle", last |-> NoOutcome]

(***************************************************************************)
(* State                                                                   *)
(***************************************************************************)
VARIABLES
  \* --- the generate endpoint ---
  gpc,        \* "idle" | "calling" (awaiting generateContent) | "done"
  apiKey,     \* process.env.GEMINI_API_KEY is set
  body,       \* body of the request being served
  aiAnswer,   \* outcome of the text-completion call of this request
  aiCalls,    \* calls of the text-completion service made for this request
  response,   \* response sent for this request
  \* --- the page ---
  page,       \* the React state of Home and the position of handleGenerate
  \* --- the ARScene component: environment and props ---
  xrHost,     \* the host: "absent" (no navigator.xr), or what its
              \* isSessionSupported does: "supported" | "unsupported" | "rejects"
  modelUrl,   \* the modelUrl prop of this mount
  \* --- React state ---
  isXRSupported,      \* "null" | "true" | "false"
  modelLoaded,
  modelLoadProgress,
  modelLoadError,     \* "null" or the message shown
  placedObjects,      \* sequence of object ids
  \* --- refs, shared by all runs of the effect ---
  modelRef,                  \* object id, 0 for null
  reticle,                   \* reticleRef.current: visible flag and matrix
  hitTestSourceRef,          \* 0 for null, else the effect run whose session gave it
  hitTestSourceRequiredRef,
  sessionRef,                \* 0 for null, else the effect run whose session it is
  \* --- closures and pending work ---
  effs,       \* one record per run of the effect (its closure)
  probes,     \* pending isSessionSupported promises
  hitReqs,    \* effect runs with a pending hit-test-source promise
  loads,      \* one record per loader.load call
  objects,    \* every Object3D created: templates and placed duplicates
  frame,      \* history: what the XRFrame last passed to render gave to the
              \* hit test (recorded by SpecTrack only)
  pct,        \* history: the last percentage each attempt reported
              \* (recorded by SpecProgress only)
  buttons     \* the <button> elements of the document, in document order

genVars == <<gpc, apiKey, body, aiAnswer, aiCalls, response, page>>

arVars == <<xrHost, modelUrl, isXRSupported, modelLoaded, modelLoadProgress,
            modelLoadError, placedObjects, modelRef, reticle, hitTestSourceRef,
            hitTestSourceRequiredRef, sessionRef, effs, probes, hitReqs, loads,
            objects, frame, pct, buttons>>

vars == <<gpc, apiKey, body, aiAnswer, aiCalls, response, page,
          xrHost, modelUrl, isXRSupported, modelLoaded, modelLoadProgress,
          modelLoadError, placedObjects, modelRef, reticle, hitTestSourceRef,
          hitTestSourceRequiredRef, sessionRef, effs, probes, hitReqs, loads,
          objects, frame, pct, buttons>>

GenInit ==
  /\ gpc = "idle"
  /\ apiKey \in BOOLEAN
  /\ body = NoBody
  /\ aiAnswer = NoAnswer
  /\ aiCalls = 0
  /\ response = NoResponse
  /\ page = pageMounted

\* POST up to its first suspension: request.json(), the `!prompt` check and,
\* inside generateModelWithAI, the API-key check
POST(b) ==
  /\ gpc = "idle"
  /\ body' = b
  /\ aiAnswer' = NoAnswer
  /\ aiCalls' = 0
  /\ IF b.kind = "malformed"
     THEN gpc' = "done" /\ response' = errorResponse
     ELSE IF promptIsFalsy(b)
     THEN gpc' = "done" /\ response' = validationResponse
     ELSE IF ~apiKey
     THEN /\ gpc' = "done"
          /\ response' = successResponse(generateModelWithAI(b.prompt, apiKey, NoAnswer))
     ELSE gpc' = "calling" /\ response' = NoResponse
  /\ UNCHANGED <<apiKey, page>>
  /\ UNCHANGED arVars

\* the text-completion call settles and POST runs to its response
generateContentSettles(answer) ==
  /\ gpc = "calling"
  /\ aiAnswer' = answer
  /\ aiCalls' = aiCalls + 1
  /\ LET modelData == generateModelWithAI(body.prompt, apiKey, answer)
     IN  response' = IF modelData.modelUrl = NoValue
                     THEN errorResponse
                     ELSE successResponse(modelData)
  /\ gpc' = "done"
  /\ UNCHANGED <<apiKey, body, page>>
  /\ UNCHANGED arVars

\* the response has been sent; the stateless server awaits the next request
requestDone ==
  /\ gpc = "done"
  /\ gpc' = "idle"
  /\ body' = NoBody
  /\ aiAnswer' = NoAnswer
  /\ aiCalls' = 0
  /\ response' = NoResponse
  /\ UNCHANGED <<apiKey, page>>
  /\ UNCHANGED arVars

GenNext ==
  \/ gpc = "idle" /\ \E b \in Bodies : POST(b)
  \/ requestDone
  \/ gpc = "calling" /\ \E answer \in Answers : generateContentSettles(answer)
(***************************************************************************)
(* Part 2 - the ARScene component                                          *)
(*                                                                         *)
(* The component is modelled as the page mounts it: <ARScene modelUrl=.../>*)
(* with a non-empty modelUrl that is constant for the mount and without    *)
(* onArSessionChange, so isFullscreen stays false.  A re-render and the    *)
(* effect run it causes are flushed before the next event is handled.      *)
(* Two specifications use it: SpecLoad mounts it with any asset URL and    *)
(* follows loading, fallback and preview while the user starts no AR       *)
(* session; Spec mounts it with the default asset URL and adds the AR      *)
(* session, the tracked frames and the placement.                          *)
(***************************************************************************)
\* more bounds of the model
MaxLoads == 3
MaxPlaced == 3
MaxTicks == 1
MaxRuns == 4

\* fallbackModels.default of the component (the same asset as "cube")
DefaultModelUrl == BoxUrl

ModelUrls == {BoxUrl, DragonUrl}

\* percentages a progress event with lengthComputable can report
ProgressValues == {40, 80}

\* pose matrices the hit test reports: a position and a yaw, the yaw in
\* units of the 0.005 rad rotation step
Poses == {[pos |-> "p1", rot |-> 0], [pos |-> "p2", rot |-> 3]}

\* what frame.getHitTestResults / hit.getPose give on one frame
FrameResults ==
  {[kind |-> k, pose |-> [pos |-> "origin", rot |-> 0]] :
      k \in {"empty", "throws", "nullPose"}}
  \cup {[kind |-> "hit", pose |-> p] : p \in Poses}

\* the hosts: a browser without navigator.xr, and browsers whose capability
\* probe resolves true, resolves false or rejects; a host answers every probe
\* of one mount the same way
XRHosts == {"absent", "supported", "unsupported", "rejects"}

\* no tracked frame rendered yet in the session, and a tracked frame
\* rendered without hit-test source, its hit test not queried
NoFrame == [kind |-> "none", pose |-> [pos |-> "origin", rot |-> 0]]
UnqueriedFrame == [kind |-> "unqueried", pose |-> [pos |-> "origin", rot |-> 0]]

\* a new reticle: invisible, identity matrix
newReticle == [visible |-> FALSE, pos |-> "origin", rot |-> 0]

\* the button of the page's prompt form and the button that
\* ARButton.createButton gives run e of the effect
GenerateButton == [kind |-> "generate", run |-> 0]

arButton(e) == [kind |-> "ar", run |-> e]

\* a cleanup whose selector matches no button
removeFirstButton_noMatch(b) == b

\* `document.querySelector('button')` followed by remove(): the first
\* button of the document is taken out
removeFirstButton(b) == IF b = <<>> THEN b ELSE Tail(b)

ARInit ==
  /\ xrHost \in XRHosts
  /\ isXRSupported = "null"
  /\ modelLoaded = FALSE
  /\ modelLoadProgress = 0
  /\ modelLoadError = "null"
  /\ placedObjects = << >>
  /\ modelRef = 0
  /\ reticle = newReticle
  /\ hitTestSourceRef = 0
  /\ hitTestSourceRequiredRef = FALSE
  /\ sessionRef = 0
  /\ effs = << >>
  /\ probes = 0
  /\ hitReqs = {}
  /\ loads = << >>
  /\ objects = << >>
  /\ frame = NoFrame
  /\ pct = [i \in 1..MaxLoads |-> 0]
  /\ buttons = <<GenerateButton>>

cur == Len(effs)

\* the dependency list of the effect differs from the one of its last run
renderPending ==
  IF cur = 0 THEN TRUE
  ELSE effs[cur].capXR # isXRSupported \/ effs[cur].url # modelUrl

\* the cleanup function returned by the last run of the effect, applied to
\* the buttons of the document
cleanedButtons ==
  IF cur > 0 /\ effs[cur].setup THEN removeFirstButton(buttons) ELSE buttons

\* the cleanup function returned by run e of the effect, applied to effs
cleanedEffs ==
  IF cur > 0 /\ effs[cur].setup
  THEN [effs EXCEPT ![cur].cleaned = TRUE,
                    ![cur].session = IF sessionRef = cur /\ @ = "active"
                                     THEN "ending" ELSE @]
  ELSE effs

\* the effect: cleanup of the previous run, then the body
effectRun ==
  /\ renderPending
  /\ modelLoaded' = FALSE
  /\ modelLoadProgress' = 0
  /\ modelLoadError' = "null"
  /\ IF xrHost = "absent"
     THEN /\ isXRSupported' = "false"
          /\ effs' = Append(cleanedEffs,
                            [capXR |-> isXRSupported, url |-> modelUrl, setup |-> FALSE,
                             delay |-> "none", cleaned |-> FALSE,
                             session |-> "none"])
          /\ UNCHANGED <<probes, reticle, hitTestSourceRef, buttons>>
     ELSE /\ probes' = probes + 1
          /\ buttons' = IF isXRSupported = "true"
                        THEN Append(cleanedButtons, arButton(cur + 1))
                        ELSE cleanedButtons
          /\ reticle' = newReticle
          /\ hitTestSourceRef' = IF cur > 0 /\ effs[cur].setup THEN 0
                                 ELSE hitTestSourceRef
          /\ effs' = Append(cleanedEffs,
                            [capXR |-> isXRSupported, url |-> modelUrl, setup |-> TRUE,
                             delay |-> IF modelUrl # "" THEN "armed" ELSE "none",
                             cleaned |-> FALSE, session |-> "none"])
          /\ UNCHANGED isXRSupported
  /\ UNCHANGED <<frame, pct, xrHost, modelUrl, placedObjects, modelRef,
                 hitTestSourceRequiredRef, sessionRef, hitReqs, loads, objects>>
  /\ UNCHANGED genVars

\* isSessionSupported settles: .then(supported => ...) or .catch(...)
probeSettles ==
  /\ ~renderPending
  /\ probes > 0
  /\ isXRSupported' = IF xrHost = "supported" THEN "true" ELSE "false"
  /\ probes' = probes - 1
  /\ UNCHANGED <<frame, pct, buttons, xrHost, modelUrl, modelLoaded, modelLoadProgress, modelLoadError,
                 placedObjects, modelRef, reticle, hitTestSourceRef,
                 hitTestSourceRequiredRef, sessionRef, effs, hitReqs, loads,
                 objects>>
  /\ UNCHANGED genVars

\* `!url || url === 'undefined'`
invalidUrl(url) == url = "" \/ url = "undefined"

\* loadModel(url) in the closure of run e, started because attempt `from`
\* failed (0: started by the delayed call of the effect).  Sets modelRef,
\* objects, modelLoaded, modelLoadProgress, modelLoadError and loads.
loadModel(e, url, from, ls) ==
  /\ Len(ls) < MaxLoads
  /\ modelRef' = 0
  /\ objects' = IF modelRef # 0 /\ objects[modelRef].scene = e
                THEN [objects EXCEPT ![modelRef].scene = 0]
                ELSE objects
  /\ modelLoaded' = FALSE
  /\ modelLoadProgress' = 0
  /\ modelLoadError' = "null"
  /\ loads' = Append(ls, [eff |-> e,
                          url |-> IF invalidUrl(url) THEN DefaultModelUrl ELSE url,
                          from |-> from, timer |-> "armed", xhr |-> "inflight"])

\* the 100 ms timer of run e fires: loadModel(modelUrl), with the modelUrl
\* of the render that run e belongs to
delayFires(e) ==
  /\ ~renderPending
  /\ effs[e].delay = "armed"
  /\ effs' = [effs EXCEPT ![e].delay = "fired"]
  /\ loadModel(e, effs[e].url, 0, loads)
  /\ UNCHANGED <<frame, pct, buttons, xrHost, modelUrl, isXRSupported, placedObjects, reticle,
                 hitTestSourceRef, hitTestSourceRequiredRef, sessionRef, probes,
                 hitReqs>>
  /\ UNCHANGED genVars

\* the 30 s timer of attempt i fires
loadTimeout(i) ==
  /\ ~renderPending
  /\ loads[i].timer = "armed"
  /\ LET ls == [loads EXCEPT ![i].timer = "fired"]
     IN  IF loads[i].url # DefaultModelUrl
         THEN loadModel(loads[i].eff, DefaultModelUrl, i, ls)
         ELSE /\ modelLoadError' = "Model loading timed out. Please try again."
              /\ loads' = ls
              /\ UNCHANGED <<modelRef, objects, modelLoaded, modelLoadProgress>>
  /\ UNCHANGED <<frame, pct, buttons, xrHost, modelUrl, isXRSupported, placedObjects, reticle,
                 hitTestSourceRef, hitTestSourceRequiredRef, sessionRef, effs,
                 probes, hitReqs>>
  /\ UNCHANGED genVars

\* an error callback that retries the url that has just failed
loadError_retrySame(i) ==
  /\ ~renderPending
  /\ loads[i].xhr = "inflight"
  /\ LET ls == [loads EXCEPT ![i].xhr = "failed",
                             ![i].timer = IF @ = "armed" THEN "cleared" ELSE @]
     IN  IF loads[i].url # DefaultModelUrl
         THEN loadModel(loads[i].eff, loads[i].url, i, ls)
         ELSE /\ modelLoadError' = "Failed to load 3D model"
              /\ loads' = ls
              /\ UNCHANGED <<modelRef, objects, modelLoaded, modelLoadProgress>>
  /\ UNCHANGED <<frame, pct, buttons, xrHost, modelUrl, isXRSupported, placedObjects, reticle,
                 hitTestSourceRef, hitTestSourceRequiredRef, sessionRef, effs,
                 probes, hitReqs>>
  /\ UNCHANGED genVars

\* the error callback of attempt i
loadError(i) ==
  /\ ~renderPending
  /\ loads[i].xhr = "inflight"
  /\ LET ls == [loads EXCEPT ![i].xhr = "failed",
                             ![i].timer = IF @ = "armed" THEN "cleared" ELSE @]
     IN  IF loads[i].url # DefaultModelUrl
         THEN loadModel(loads[i].eff, DefaultModelUrl, i, ls)
         ELSE /\ modelLoadError' = "Failed to load 3D model"
              /\ loads' = ls
              /\ UNCHANGED <<modelRef, objects, modelLoaded, modelLoadProgress>>
  /\ UNCHANGED <<frame, pct, buttons, xrHost, modelUrl, isXRSupported, placedObjects, reticle,
                 hitTestSourceRef, hitTestSourceRequiredRef, sessionRef, effs,
                 probes, hitReqs>>
  /\ UNCHANGED genVars

\* the template built by the success callback of an attempt of run e
newTemplate(e, url) ==
  IF effs[e].capXR = "true" /\ sessionRef # 0
  THEN [url |-> url, clone |-> FALSE, scene |-> e, pos |-> "centered",
        rot |-> 0, visible |-> FALSE]
  ELSE [url |-> url, clone |-> FALSE, scene |-> e, pos |-> "preview",
        rot |-> 0, visible |-> TRUE]

\* the success callback of attempt i
loadSuccess(i) ==
  /\ ~renderPending
  /\ loads[i].xhr = "inflight"
  /\ loads' = [loads EXCEPT ![i].xhr = "loaded",
                            ![i].timer = IF @ = "armed" THEN "cleared" ELSE @]
  /\ objects' = Append(objects, newTemplate(loads[i].eff, loads[i].url))
  /\ modelRef' = Len(objects) + 1
  /\ modelLoaded' = TRUE
  /\ modelLoadProgress' = 100
  /\ UNCHANGED <<frame, pct, buttons, xrHost, modelUrl, isXRSupported, modelLoadError, placedObjects,
                 reticle, hitTestSourceRef, hitTestSourceRequiredRef, sessionRef,
                 effs, probes, hitReqs>>
  /\ UNCHANGED genVars

\* a progress event of attempt i with lengthComputable: any percentage
loadProgress(i, percent) ==
  /\ ~renderPending
  /\ loads[i].xhr = "inflight"
  /\ modelLoadProgress' = percent
  /\ UNCHANGED <<frame, buttons, xrHost, modelUrl, isXRSupported, modelLoaded, modelLoadError,
                 placedObjects, modelRef, reticle, hitTestSourceRef,
                 hitTestSourceRequiredRef, sessionRef, effs, probes, hitReqs,
                 loads, objects>>
  /\ UNCHANGED genVars

\* the user presses the AR button of the current run: 'sessionstart'
sessionStart(e) ==
  /\ ~renderPending
  /\ e = cur
  /\ effs[e].setup /\ ~effs[e].cleaned
  /\ effs[e].capXR = "true"
  /\ effs[e].session = "none"
  /\ effs' = [effs EXCEPT ![e].session = "active"]
  /\ sessionRef' = e
  /\ hitTestSourceRequiredRef' = TRUE
  /\ objects' = IF modelRef # 0
                THEN [objects EXCEPT ![modelRef].visible = FALSE]
                ELSE objects
  /\ UNCHANGED <<frame, pct, buttons, xrHost, modelUrl, isXRSupported, modelLoaded, modelLoadProgress,
                 modelLoadError, placedObjects, modelRef, reticle,
                 hitTestSourceRef, probes, hitReqs, loads>>
  /\ UNCHANGED genVars

\* the session of run e ends (the user stops it, or cleanup ended it):
\* 'sessionend'
sessionEnd(e) ==
  /\ ~renderPending
  /\ effs[e].session \in {"active", "ending"}
  /\ effs' = [effs EXCEPT ![e].session = "ended"]
  /\ sessionRef' = 0
  /\ hitTestSourceRef' = 0
  /\ hitTestSourceRequiredRef' = FALSE
  /\ UNCHANGED <<frame, pct, buttons, xrHost, modelUrl, isXRSupported, modelLoaded, modelLoadProgress,
                 modelLoadError, placedObjects, modelRef, reticle, probes,
                 hitReqs, loads, objects>>
  /\ UNCHANGED genVars

\* the reticle after the hit-test part of render on a tracked frame
reticleAfterFrame(r) ==
  IF hitTestSourceRef = 0 THEN reticle
  ELSE IF r.kind = "hit"
       THEN [visible |-> TRUE, pos |-> r.pose.pos, rot |-> r.pose.rot]
  ELSE IF r.kind = "empty"
       THEN [reticle EXCEPT !.visible = FALSE]
  ELSE reticle

\* a render that also moves every placed instance to the reticle
renderFrame_dragsPlaced(e, r) ==
  /\ ~renderPending
  /\ e = cur
  /\ ~effs[e].cleaned
  /\ effs[e].session = "active"
  /\ IF hitTestSourceRequiredRef
     THEN hitReqs' = hitReqs \cup {e} /\ hitTestSourceRequiredRef' = FALSE
     ELSE UNCHANGED <<hitReqs, hitTestSourceRequiredRef>>
  /\ reticle' = reticleAfterFrame(r)
  /\ objects' = [k \in 1..Len(objects) |->
                   IF objects[k].clone
                   THEN [objects[k] EXCEPT !.pos = reticleAfterFrame(r).pos]
                   ELSE objects[k]]
  /\ UNCHANGED <<pct, buttons, xrHost, modelUrl, isXRSupported, modelLoaded, modelLoadProgress,
                 modelLoadError, placedObjects, modelRef, hitTestSourceRef,
                 sessionRef, effs, probes, loads>>
  /\ UNCHANGED genVars

\* render(timestamp, frame) of run e with an XRFrame.  The step leaves the
\* history variable `frame` to the specification that takes it.
renderFrame(e, r) ==
  /\ ~renderPending
  /\ e = cur
  /\ ~effs[e].cleaned
  /\ effs[e].session = "active"
  /\ IF hitTestSourceRequiredRef
     THEN hitReqs' = hitReqs \cup {e} /\ hitTestSourceRequiredRef' = FALSE
     ELSE UNCHANGED <<hitReqs, hitTestSourceRequiredRef>>
  /\ reticle' = reticleAfterFrame(r)
  /\ UNCHANGED <<pct, buttons, xrHost, modelUrl, isXRSupported, modelLoaded, modelLoadProgress,
                 modelLoadError, placedObjects, modelRef, hitTestSourceRef,
                 sessionRef, effs, probes, loads, objects>>
  /\ UNCHANGED genVars

\* a render that rotates the template whatever the probe reported
renderTick_always(e) ==
  /\ ~renderPending
  /\ e = cur
  /\ effs[e].setup /\ ~effs[e].cleaned
  /\ effs[e].session # "active"
  /\ modelRef # 0
  /\ objects[modelRef].rot < MaxTicks
  /\ objects' = [objects EXCEPT ![modelRef].rot = @ + 1]
  /\ UNCHANGED <<frame, pct, buttons, xrHost, modelUrl, isXRSupported, modelLoaded, modelLoadProgress,
                 modelLoadError, placedObjects, modelRef, reticle,
                 hitTestSourceRef, hitTestSourceRequiredRef, sessionRef, effs,
                 probes, hitReqs, loads>>
  /\ UNCHANGED genVars

\* render(timestamp, undefined) of run e: the preview rotation
renderTick(e) ==
  /\ ~renderPending
  /\ e = cur
  /\ effs[e].setup /\ ~effs[e].cleaned
  /\ effs[e].session # "active"
  /\ modelRef # 0 /\ effs[e].capXR # "true"
  /\ objects[modelRef].rot < MaxTicks
  /\ objects' = [objects EXCEPT ![modelRef].rot = @ + 1]
  /\ UNCHANGED <<frame, pct, buttons, xrHost, modelUrl, isXRSupported, modelLoaded, modelLoadProgress,
                 modelLoadError, placedObjects, modelRef, reticle,
                 hitTestSourceRef, hitTestSourceRequiredRef, sessionRef, effs,
                 probes, hitReqs, loads>>
  /\ UNCHANGED genVars

\* the promise chain requestReferenceSpace / requestHitTestSource of the
\* session of run e settles: with a source, or without one
hitTestSourceSettles(e, ok) ==
  /\ ~renderPending
  /\ e \in hitReqs
  /\ hitReqs' = hitReqs \ {e}
  /\ hitTestSourceRef' = IF ok THEN e ELSE hitTestSourceRef
  /\ UNCHANGED <<frame, pct, buttons, xrHost, modelUrl, isXRSupported, modelLoaded, modelLoadProgress,
                 modelLoadError, placedObjects, modelRef, reticle,
                 hitTestSourceRequiredRef, sessionRef, effs, probes, loads,
                 objects>>
  /\ UNCHANGED genVars

\* a condition that tests the template only
canPlace_templateOnly == modelRef # 0

\* the condition of onSelect
canPlace == reticle.visible /\ modelRef # 0

\* a duplicate left at the template's own position
placedClone_unmoved(e) ==
  [url |-> objects[modelRef].url, clone |-> TRUE, scene |-> e,
   pos |-> objects[modelRef].pos, rot |-> objects[modelRef].rot,
   visible |-> TRUE]

\* modelRef.current.clone() positioned by setFromMatrixPosition(reticle.matrix)
placedClone(e) ==
  [url |-> objects[modelRef].url, clone |-> TRUE, scene |-> e,
   pos |-> reticle.pos, rot |-> objects[modelRef].rot, visible |-> TRUE]

\* a handler that puts the new instance in front of the list
onSelect_prepend(e) ==
  /\ ~renderPending
  /\ effs[e].session \in {"active", "ending"}
  /\ IF canPlace
     THEN /\ Len(placedObjects) < MaxPlaced
          /\ objects' = Append(objects, placedClone(e))
          /\ placedObjects' = << Len(objects) + 1 >> \o placedObjects
     ELSE UNCHANGED <<objects, placedObjects>>
  /\ UNCHANGED <<frame, pct, buttons, xrHost, modelUrl, isXRSupported, modelLoaded, modelLoadProgress,
                 modelLoadError, modelRef, reticle, hitTestSourceRef,
                 hitTestSourceRequiredRef, sessionRef, effs, probes, hitReqs,
                 loads>>
  /\ UNCHANGED genVars

\* the controller of run e dispatches 'select': onSelect
onSelect(e) ==
  /\ ~renderPending
  /\ effs[e].session \in {"active", "ending"}
  /\ IF canPlace
     THEN /\ Len(placedObjects) < MaxPlaced
          /\ objects' = Append(objects, placedClone(e))
          /\ placedObjects' = Append(placedObjects, Len(objects) + 1)
     ELSE UNCHANGED <<objects, placedObjects>>
  /\ UNCHANGED <<frame, pct, buttons, xrHost, modelUrl, isXRSupported, modelLoaded, modelLoadProgress,
                 modelLoadError, modelRef, reticle, hitTestSourceRef,
                 hitTestSourceRequiredRef, sessionRef, effs, probes, hitReqs,
                 loads>>
  /\ UNCHANGED genVars

\* mounting, capability probe, loading and the untracked render loop
LoadNext ==
  \/ effectRun
  \/ probeSettles
  \/ \E e \in 1..cur : delayFires(e)
  \/ \E i \in 1..Len(loads) : loadTimeout(i)
  \/ \E i \in 1..Len(loads) : loadError(i)
  \/ \E i \in 1..Len(loads) : loadSuccess(i)
  \/ \E i \in 1..Len(loads), percent \in ProgressValues :
       loadProgress(i, percent) /\ UNCHANGED pct
  \/ \E e \in 1..cur : renderTick(e)

\* the AR session: start and end, tracked frames, placement
XRNext ==
  \/ \E e \in 1..cur : sessionStart(e)
  \/ \E e \in 1..cur : sessionEnd(e)
  \/ \E e \in 1..cur, r \in FrameResults : renderFrame(e, r) /\ UNCHANGED frame
  \/ \E e \in 1..cur, ok \in BOOLEAN : hitTestSourceSettles(e, ok)
  \/ \E e \in 1..cur : onSelect(e)

ARNext == LoadNext \/ XRNext

\* what a tracked frame gave to the hit test of render
observed(r) == IF hitTestSourceRef = 0 THEN UnqueriedFrame ELSE r

\* a mount on a host with AR whose loads succeed, the tracked frames
\* recorded in `frame`
TrackNext ==
  \/ effectRun
  \/ probeSettles
  \/ \E e \in 1..cur : delayFires(e)
  \/ \E i \in 1..Len(loads) : loadSuccess(i)
  \/ \E e \in 1..cur : sessionStart(e)
  \/ \E e \in 1..cur : sessionEnd(e)
  \/ \E e \in 1..cur, r \in FrameResults :
       renderFrame(e, r) /\ frame' = observed(r)
  \/ \E e \in 1..cur, ok \in BOOLEAN : hitTestSourceSettles(e, ok)
  \/ \E e \in 1..cur : onSelect(e)

\* the endpoint at rest, for the specifications of the component
\* the parent renders the component with another modelUrl
modelUrlChanges(u) ==
  /\ ~renderPending
  /\ cur < MaxRuns
  /\ u # modelUrl
  /\ modelUrl' = u
  /\ UNCHANGED <<frame, pct, buttons, xrHost, isXRSupported, modelLoaded,
                 modelLoadProgress, modelLoadError, placedObjects, modelRef,
                 reticle, hitTestSourceRef, hitTestSourceRequiredRef,
                 sessionRef, effs, probes, hitReqs, loads, objects>>
  /\ UNCHANGED genVars

\* the steps that rebuild the scene and the AR button: the effect, the
\* probe, a change of the model URL, and the AR session
DomNext ==
  \/ effectRun
  \/ probeSettles
  \/ \E u \in ModelUrls : modelUrlChanges(u)
  \/ \E e \in 1..cur : sessionStart(e)
  \/ \E e \in 1..cur : sessionEnd(e)

\* the model URL changes once the user has placed an instance
urlChangesAfterPlacing(u) ==
  /\ placedObjects # <<>>
  /\ modelUrlChanges(u)

\* the steps of an AR session whose scene is rebuilt when the model URL
\* changes: the user starts the session, the surface is found at one pose,
\* instances are placed, and then the URL changes
RebuildNext ==
  \/ effectRun
  \/ probeSettles
  \/ \E u \in ModelUrls : urlChangesAfterPlacing(u)
  \/ delayFires(cur)
  \/ \E i \in 1..Len(loads) : loadSuccess(i)
  \/ sessionStart(cur)
  \/ \E r \in {x \in FrameResults : x.kind = "hit" /\ x.pose.pos = "p1"} :
       renderFrame(cur, r) /\ UNCHANGED frame
  \/ hitTestSourceSettles(cur, TRUE)
  \/ \E e \in 1..cur : onSelect(e)

\* a progress event of attempt i: the bytes one request has received only
\* grow, so the percentages of one attempt increase
trackedProgress(i, percent) ==
  /\ percent > pct[i]
  /\ loadProgress(i, percent)
  /\ pct' = [pct EXCEPT ![i] = percent]

\* the steps of the loading with the progress of each attempt recorded
ProgressNext ==
  \/ effectRun
  \/ probeSettles
  \/ \E e \in 1..cur : delayFires(e)
  \/ \E i \in 1..Len(loads) : loadTimeout(i)
  \/ \E i \in 1..Len(loads) : loadError(i)
  \/ \E i \in 1..Len(loads) : loadSuccess(i)
  \/ \E i \in 1..Len(loads), percent \in ProgressValues :
       trackedProgress(i, percent)

GenIdle ==
  /\ gpc = "idle" /\ apiKey = TRUE /\ body = NoBody /\ aiAnswer = NoAnswer
  /\ aiCalls = 0 /\ response = NoResponse /\ page = pageMounted

\* the ARScene component mounted with the default asset, with AR sessions
Init == GenIdle /\ ARInit /\ modelUrl = DefaultModelUrl

Spec == Init /\ [][ARNext]_vars

\* the ARScene component mounted with any asset, no AR session started
InitLoad == GenIdle /\ ARInit /\ modelUrl \in ModelUrls

SpecLoad == InitLoad /\ [][LoadNext]_vars

\* the ARScene component on a host with AR, the tracked frames observed
InitTrack ==
  GenIdle /\ ARInit /\ modelUrl = DefaultModelUrl /\ xrHost = "supported"

SpecTrack == InitTrack /\ [][TrackNext]_vars

\* the generate endpoint, the component not yet mounted
InitProgress ==
  GenIdle /\ ARInit /\ modelUrl \in ModelUrls /\ xrHost = "unsupported"

SpecProgress == InitProgress /\ [][ProgressNext]_vars

InitDom == GenIdle /\ ARInit /\ modelUrl \in ModelUrls

SpecDom == InitDom /\ [][DomNext]_vars

InitRebuild ==
  GenIdle /\ ARInit /\ modelUrl = DefaultModelUrl /\ xrHost = "supported"

SpecRebuild == InitRebuild /\ [][RebuildNext]_vars

InitGen == GenInit /\ ARInit /\ xrHost = "supported" /\ modelUrl = DefaultModelUrl

SpecGen == InitGen /\ [][GenNext]_vars

(***************************************************************************)
(* Part 3 - the ARScene component of the imagine-ar sample                 *)
(*                                                                         *)
(* The sample has the refs and the state isXRSupported and modelLoaded of  *)
(* the component above and is modelled on the same variables.  Its effect  *)
(* starts the load directly, without delay, timeout or fallback; its       *)
(* 'sessionstart' listener only stores the session; its cleanup does not   *)
(* end a running session.  The capability probe is the same code           *)
(* (probeSettles).                                                         *)
(***************************************************************************)
\* the cleanup function of the sample, applied to effs
sampleCleanedEffs ==
  IF cur > 0 /\ effs[cur].setup
  THEN [effs EXCEPT ![cur].cleaned = TRUE]
  ELSE effs

\* the effect of the sample: cleanup of the previous run, then the body,
\* which ends with loadModel(modelUrl).  The cleanup looks for
\* 'button[data-type="ar"]'; no button carries that attribute, so it removes
\* none.
sampleEffectRun ==
  /\ renderPending
  /\ IF xrHost = "absent"
     THEN /\ isXRSupported' = "false"
          /\ effs' = Append(sampleCleanedEffs,
                            [capXR |-> isXRSupported, url |-> modelUrl, setup |-> FALSE,
                             delay |-> "none", cleaned |-> FALSE,
                             session |-> "none"])
          /\ UNCHANGED <<probes, reticle, hitTestSourceRef, loads, buttons>>
     ELSE /\ probes' = probes + 1
          /\ buttons' = IF isXRSupported = "true"
                        THEN Append(buttons, arButton(cur + 1))
                        ELSE buttons
          /\ reticle' = newReticle
          /\ hitTestSourceRef' = IF cur > 0 /\ effs[cur].setup THEN 0
                                 ELSE hitTestSourceRef
          /\ effs' = Append(sampleCleanedEffs,
                            [capXR |-> isXRSupported, url |-> modelUrl, setup |-> TRUE,
                             delay |-> "none", cleaned |-> FALSE,
                             session |-> "none"])
          /\ loads' = Append(loads, [eff |-> cur + 1, url |-> modelUrl,
                                     from |-> 0, timer |-> "none",
                                     xhr |-> "inflight"])
          /\ UNCHANGED isXRSupported
  /\ UNCHANGED <<frame, pct, xrHost, modelUrl, modelLoaded, modelLoadProgress,
                 modelLoadError, placedObjects, modelRef,
                 hitTestSourceRequiredRef, sessionRef, hitReqs, objects>>
  /\ UNCHANGED genVars

\* the template built by the success callback of the sample
sampleTemplate(e, url) ==
  IF effs[e].capXR = "true"
  THEN [url |-> url, clone |-> FALSE, scene |-> e, pos |-> "origin",
        rot |-> 0, visible |-> FALSE]
  ELSE [url |-> url, clone |-> FALSE, scene |-> e, pos |-> "preview",
        rot |-> 0, visible |-> TRUE]

\* the success callback of load i of the sample
sampleLoadSuccess(i) ==
  /\ ~renderPending
  /\ loads[i].xhr = "inflight"
  /\ loads' = [loads EXCEPT ![i].xhr = "loaded"]
  /\ objects' = Append(objects, sampleTemplate(loads[i].eff, loads[i].url))
  /\ modelRef' = Len(objects) + 1
  /\ modelLoaded' = TRUE
  /\ UNCHANGED <<frame, pct, buttons, xrHost, modelUrl, isXRSupported, modelLoadProgress,
                 modelLoadError, placedObjects, reticle, hitTestSourceRef,
                 hitTestSourceRequiredRef, sessionRef, effs, probes, hitReqs>>
  /\ UNCHANGED genVars

\* the error callback of load i of the sample: it only logs
sampleLoadError(i) ==
  /\ ~renderPending
  /\ loads[i].xhr = "inflight"
  /\ loads' = [loads EXCEPT ![i].xhr = "failed"]
  /\ UNCHANGED <<frame, pct, buttons, xrHost, modelUrl, isXRSupported, modelLoaded,
                 modelLoadProgress, modelLoadError, placedObjects, modelRef,
                 reticle, hitTestSourceRef, hitTestSourceRequiredRef,
                 sessionRef, effs, probes, hitReqs, objects>>
  /\ UNCHANGED genVars

\* the user presses the AR button of the current run: 'sessionstart'
sampleSessionStart(e) ==
  /\ ~renderPending
  /\ e = cur
  /\ effs[e].setup /\ ~effs[e].cleaned
  /\ effs[e].capXR = "true"
  /\ effs[e].session = "none"
  /\ effs' = [effs EXCEPT ![e].session = "active"]
  /\ sessionRef' = e
  /\ UNCHANGED <<frame, pct, buttons, xrHost, modelUrl, isXRSupported, modelLoaded,
                 modelLoadProgress, modelLoadError, placedObjects, modelRef,
                 reticle, hitTestSourceRef, hitTestSourceRequiredRef, probes,
                 hitReqs, loads, objects>>
  /\ UNCHANGED genVars

\* the session of run e ends: 'sessionend'
sampleSessionEnd(e) ==
  /\ ~renderPending
  /\ effs[e].session = "active"
  /\ effs' = [effs EXCEPT ![e].session = "ended"]
  /\ sessionRef' = 0
  /\ hitTestSourceRef' = 0
  /\ hitTestSourceRequiredRef' = FALSE
  /\ UNCHANGED <<frame, pct, buttons, xrHost, modelUrl, isXRSupported, modelLoaded,
                 modelLoadProgress, modelLoadError, placedObjects, modelRef,
                 reticle, probes, hitReqs, loads, objects>>
  /\ UNCHANGED genVars

\* render(timestamp, frame) of the sample with an XRFrame: the reticle is
\* shown on a result with a pose and never hidden
sampleRenderFrame(e, r) ==
  /\ ~renderPending
  /\ e = cur
  /\ ~effs[e].cleaned
  /\ effs[e].session = "active"
  /\ IF hitTestSourceRequiredRef
     THEN hitReqs' = hitReqs \cup {e} /\ hitTestSourceRequiredRef' = FALSE
     ELSE UNCHANGED <<hitReqs, hitTestSourceRequiredRef>>
  /\ reticle' = IF hitTestSourceRef # 0 /\ r.kind = "hit"
                THEN [visible |-> TRUE, pos |-> r.pose.pos, rot |-> r.pose.rot]
                ELSE reticle
  /\ UNCHANGED <<pct, buttons, xrHost, modelUrl, isXRSupported, modelLoaded,
                 modelLoadProgress, modelLoadError, placedObjects, modelRef,
                 hitTestSourceRef, sessionRef, effs, probes, loads, objects>>
  /\ UNCHANGED genVars

\* requestHitTestSource of the session of run e resolves (the sample has no
\* catch: a rejection leaves the ref as it is).  The handler needs a request
\* made by sampleRenderFrame; no reachable state of the sample has one
\* (sampleNeverRequests), so it is not a step of SampleNext.
sampleHitTestSourceSettles(e, ok) ==
  /\ ~renderPending
  /\ e \in hitReqs
  /\ hitReqs' = hitReqs \ {e}
  /\ hitTestSourceRef' = IF ok THEN e ELSE hitTestSourceRef
  /\ UNCHANGED <<frame, pct, buttons, xrHost, modelUrl, isXRSupported, modelLoaded,
                 modelLoadProgress, modelLoadError, placedObjects, modelRef,
                 reticle, hitTestSourceRequiredRef, sessionRef, effs, probes,
                 loads, objects>>
  /\ UNCHANGED genVars

\* render(timestamp, undefined) of the sample: the preview rotation
sampleRenderTick(e) ==
  /\ ~renderPending
  /\ e = cur
  /\ effs[e].setup /\ ~effs[e].cleaned
  /\ effs[e].session # "active"
  /\ modelRef # 0 /\ effs[e].capXR # "true"
  /\ objects[modelRef].rot < MaxTicks
  /\ objects' = [objects EXCEPT ![modelRef].rot = @ + 1]
  /\ UNCHANGED <<frame, pct, buttons, xrHost, modelUrl, isXRSupported, modelLoaded,
                 modelLoadProgress, modelLoadError, placedObjects, modelRef,
                 reticle, hitTestSourceRef, hitTestSourceRequiredRef,
                 sessionRef, effs, probes, hitReqs, loads>>
  /\ UNCHANGED genVars

\* the duplicates made by onSelect of the sample
sampleClones == {k \in 1..Len(objects) : objects[k].clone}

\* the controller of run e dispatches 'select': onSelect of the sample, which
\* keeps no list of the duplicates
sampleOnSelect(e) ==
  /\ ~renderPending
  /\ effs[e].session = "active"
  /\ IF canPlace
     THEN /\ Cardinality(sampleClones) < MaxPlaced
          /\ objects' = Append(objects, placedClone(e))
     ELSE UNCHANGED objects
  /\ UNCHANGED <<frame, pct, buttons, xrHost, modelUrl, isXRSupported, modelLoaded,
                 modelLoadProgress, modelLoadError, placedObjects, modelRef,
                 reticle, hitTestSourceRef, hitTestSourceRequiredRef,
                 sessionRef, effs, probes, hitReqs, loads>>
  /\ UNCHANGED genVars

\* what the platform delivered with the last tracked frame of the sample: the
\* pose it reports is recorded also while no hit-test source is queried
sampleObserved(r) ==
  IF hitTestSourceRef = 0 THEN [kind |-> "unqueried", pose |-> r.pose] ELSE r

\* a tracked frame of the sample on which the platform reports a surface hit
sampleHitFrame ==
  \E e \in 1..cur, r \in {f \in FrameResults : f.kind = "hit"} :
    sampleRenderFrame(e, r) /\ frame' = sampleObserved(r)

\* nothing in the sample sets hitTestSourceRequiredRef, so no frame requests
\* a hit-test source
sampleNeverRequests ==
  ~hitTestSourceRequiredRef /\ hitReqs = {} /\ hitTestSourceRef = 0

SampleNext ==
  \/ sampleEffectRun
  \/ probeSettles
  \/ \E i \in 1..Len(loads) : sampleLoadSuccess(i)
  \/ \E i \in 1..Len(loads) : sampleLoadError(i)
  \/ \E e \in 1..cur : sampleSessionStart(e)
  \/ \E e \in 1..cur : sampleSessionEnd(e)
  \/ \E e \in 1..cur, r \in FrameResults :
       sampleRenderFrame(e, r) /\ frame' = sampleObserved(r)
  \/ \E e \in 1..cur : sampleRenderTick(e)
  \/ \E e \in 1..cur : sampleOnSelect(e)

\* the sample mounted with any asset
InitSample == GenIdle /\ ARInit /\ modelUrl \in ModelUrls

SpecSample == InitSample /\ [][SampleNext]_vars

\* the sample with the scheduling of the platform: while a session runs the
\* platform keeps delivering tracked frames with surface hits, and pending
\* promises and loads settle
SpecSampleFair ==
  /\ SpecSample
  /\ WF_vars(sampleEffectRun)
  /\ WF_vars(probeSettles)
  /\ WF_vars(\E i \in 1..Len(loads) : sampleLoadSuccess(i))
  /\ WF_vars(sampleHitFrame)

(***************************************************************************)
(* Claims about the generate endpoint (specification SpecGen)              *)
(***************************************************************************)
\* the non-empty space-separated pieces of the lowercased prompt
promptTokens(p) == SelectSeq(split(toLowerCase(p)), LAMBDA t : t # << >>)

\* what an answer contributes to the keyword list: its keywords and its
\* mainCategory, or the prompt's tokens once more when it is not JSON
answerTokens(p, answer) ==
  IF answer.kind = "json"
  THEN SelectSeq(answer.keywords \o << answer.mainCategory >>,
                 LAMBDA t : t # << >>)
  ELSE promptTokens(p)

keywordSet(c) ==
  {modelCategories[c].keywords[k] : k \in 1..Len(modelCategories[c].keywords)}

\* hits of category number c in a list of tokens, compared case-insensitively
hits(c, tokens) ==
  Cardinality({i \in 1..Len(tokens) : toLowerCase(tokens[i]) \in keywordSet(c)})

hitCategories(tokens) ==
  {c \in 1..Len(modelCategories) : hits(c, tokens) > 0}

\* the category with the most hits, the first declared among equals
topCategory(tokens) ==
  CHOOSE c \in 1..Len(modelCategories) :
    /\ \A d \in 1..Len(modelCategories) : hits(d, tokens) <= hits(c, tokens)
    /\ \A d \in 1..(c - 1) : hits(d, tokens) < hits(c, tokens)

\* the request carried a prompt that passed the `!prompt` check and is answered
answered == gpc = "done" /\ body.kind = "prompt" /\ body.prompt # << >>

\* the text-completion call was made, returned, and its answer was processed
callSucceeded ==
  apiKey /\ aiAnswer.kind \in {"text", "json"}

\* C1 (as amended): a failed text-completion call (no API key, a rejected
\* call, an answer the code cannot process) yields a 200 response with the
\* default asset URL whatever the prompt contains, the placeholder description
\* and aiGenerated = false; a successful call yields the URL the table gives
\* for the reported modelType, the service's text and aiGenerated = true.
C1_FailedCallYieldsDefault ==
  answered =>
    /\ response.status = 200
    /\ IF callSucceeded
       THEN /\ response.aiGenerated = TRUE
            /\ response.description = AiText
            /\ response.modelType \in DOMAIN fallbackModels
            /\ response.url = fallbackModels[response.modelType]
       ELSE /\ response.aiGenerated = FALSE
            /\ response.description = PlaceholderDescription
            /\ response.url = fallbackModels["default"]

\* C1 witness: the scenario prompt answered after a rejected call
C1_Witness ==
  /\ answered /\ body.prompt = ScenarioPrompt /\ aiAnswer.kind = "reject"
  /\ response.url = BoxUrl /\ response.aiGenerated = FALSE

\* C1 (original): the URL is the one of the category the prompt's keywords
\* select, whether the call succeeds or fails.
C1_UrlFromPromptAlone ==
  answered /\ hitCategories(promptTokens(body.prompt)) # {} =>
    response.url =
      fallbackModels[modelCategories[topCategory(promptTokens(body.prompt))].category]

\* C8 (original): an empty or whitespace-only prompt is rejected with a
\* 400 response and the text-completion service is not called for it.
C8_WhitespaceRejected ==
  body.kind = "prompt" /\ trimIsEmpty(body.prompt) =>
    /\ gpc # "calling"
    /\ gpc = "done" => response.status = 400 /\ aiCalls = 0

\* C9 (as amended): when the call succeeds, the prompt contains (as whole
\* space-separated tokens, case-insensitively) trigger keywords of exactly
\* one category, and the answer adds no trigger keyword of another category,
\* the URL and modelType are that category's.
C9_SingleCategoryResolves ==
  answered /\ callSucceeded =>
    \A c \in 1..Len(modelCategories) :
      /\ hitCategories(promptTokens(body.prompt)) = {c}
      /\ hitCategories(answerTokens(body.prompt, aiAnswer)) \subseteq {c}
      => /\ response.modelType = modelCategories[c].category
         /\ response.url = fallbackModels[modelCategories[c].category]

\* C9 witness: "lantern" with an answer that adds the lantern keyword "Light"
C9_Witness ==
  /\ answered /\ callSucceeded
  /\ body.prompt = W_lantern
  /\ aiAnswer.kind = "json" /\ aiAnswer.keywords = << W_Light >>
  /\ response.modelType = "lantern" /\ response.url = LanternUrl

\* C9 (original): when the call succeeds and the prompt contains trigger
\* keywords of exactly one category, the URL and modelType are that
\* category's for every answer of the service.
C9_AnyAnswer ==
  answered /\ callSucceeded =>
    \A c \in 1..Len(modelCategories) :
      hitCategories(promptTokens(body.prompt)) = {c}
      => /\ response.modelType = modelCategories[c].category
         /\ response.url = fallbackModels[modelCategories[c].category]

\* C10 (as amended): when the call succeeds, hits are counted over the
\* prompt's tokens together with what the answer contributes; if several
\* categories are hit the one with strictly more hits is selected, and among
\* equal top counts the one declared first.
C10_MostHitsFirstDeclared ==
  answered /\ callSucceeded =>
    LET all == promptTokens(body.prompt) \o answerTokens(body.prompt, aiAnswer)
    IN  Cardinality(hitCategories(all)) >= 2
        => response.modelType = modelCategories[topCategory(all)].category

\* C10 witness: "robot lantern", one hit each (two each with the tokens
\* counted twice), resolves to robot
C10_Witness ==
  /\ answered /\ callSucceeded /\ aiAnswer.kind = "text"
  /\ body.prompt = TiePrompt /\ response.modelType = "robot"

\* C10 (original): the hits that decide are those of the prompt.
C10_PromptHitsDecide ==
  answered /\ callSucceeded =>
    (Cardinality(hitCategories(promptTokens(body.prompt))) >= 2
     => response.modelType =
          modelCategories[topCategory(promptTokens(body.prompt))].category)

\* keyword k occurs in the character sequence s
occursIn(k, s) ==
  \E j \in 0..(Len(s) - Len(k)) : SubSeq(s, j + 1, j + Len(k)) = k

\* the categories of which a trigger keyword occurs somewhere in the
\* lowercased prompt
substringCategories(p) ==
  {c \in 1..Len(modelCategories) :
     \E k \in keywordSet(c) : occursIn(k, toLowerCase(p))}

\* the keyword list the hits are counted over
combinedTokens == promptTokens(body.prompt) \o answerTokens(body.prompt, aiAnswer)

\* the answer contributes no hit of its own: a JSON object whose keywords
\* and mainCategory are no trigger keywords
answerAddsNoHit ==
  aiAnswer.kind = "json"
  /\ hitCategories(answerTokens(body.prompt, aiAnswer)) = {}

\* C11 (as amended): a category's score is the number of elements of the
\* keyword list (the lowercased prompt split at spaces, then what the answer
\* contributes) that equal one of its trigger keywords; a keyword that occurs
\* only inside a longer token does not count, so the prompt "dragonfly" with
\* an answer that adds no hit scores nothing and resolves to default.
C11_ScoreCountsWholeTokens ==
  answered /\ callSucceeded =>
    /\ \A c \in 1..Len(modelCategories) :
         categoryScores(body.prompt, aiAnswer)[c].score = hits(c, combinedTokens)
    /\ (body.prompt = W_dragonfly /\ answerAddsNoHit)
       => response.modelType = "default"

\* C11 witness: "dragonfly" answered as default
C11_Witness ==
  /\ answered /\ callSucceeded /\ answerAddsNoHit
  /\ body.prompt = W_dragonfly
  /\ response.modelType = "default" /\ response.url = BoxUrl

\* C11 (original): a trigger keyword counts when it occurs as a substring of
\* the lowercased prompt; a prompt in which keywords of exactly one category
\* occur resolves to that category ("dragonfly" to dragon).
C11_SubstringCounts ==
  (answered /\ callSucceeded /\ answerAddsNoHit) =>
    \A c \in 1..Len(modelCategories) :
      substringCategories(body.prompt) = {c}
      => response.modelType = modelCategories[c].category

\* C12 (as amended): when the call succeeds and the keyword list (the
\* prompt's tokens together with the answer's keywords and mainCategory) has
\* no hit in any category, the response carries the default asset URL and the
\* modelType "default".
C12_NoHitYieldsDefault ==
  (answered /\ callSucceeded /\ hitCategories(combinedTokens) = {}) =>
    /\ response.url = fallbackModels["default"]
    /\ response.modelType = "default"

\* C12 witness: "red" with an answer that adds no hit
C12_Witness ==
  /\ answered /\ callSucceeded /\ answerAddsNoHit
  /\ body.prompt = W_red
  /\ response.url = BoxUrl /\ response.modelType = "default"
  /\ response.aiGenerated = TRUE

\* C12 (original): a prompt without any keyword hit (not even as a
\* substring) gets the default asset URL and the modelType "default".
C12_PromptWithoutHit ==
  (answered /\ ~trimIsEmpty(body.prompt)
   /\ substringCategories(body.prompt) = {}) =>
    /\ response.url = fallbackModels["default"]
    /\ response.modelType = "default"

\* C13: without API key, a POST with a non-empty prompt is answered with
\* status 200, an asset URL of the table, the placeholder description and
\* aiGenerated = false, without an error field and without a call of the
\* text-completion service.
C13_NoKeyStillSucceeds ==
  (answered /\ ~apiKey) =>
    /\ response.status = 200
    /\ response.error = NoValue
    /\ response.url \in {fallbackModels[t] : t \in DOMAIN fallbackModels}
    /\ response.description = PlaceholderDescription
    /\ response.aiGenerated = FALSE
    /\ aiCalls = 0

\* C13 witness: the scenario prompt answered without API key
C13_Witness ==
  /\ answered /\ ~apiKey /\ body.prompt = ScenarioPrompt
  /\ response.status = 200 /\ response.description = PlaceholderDescription

\* C14 (as amended): every non-2xx response carries an error string; the
\* 500 response also carries the default asset URL in its url field, the 400
\* response to a missing or empty prompt carries no url field.
C14_ErrorBodies ==
  (gpc = "done" /\ response.status # 200) =>
    /\ response.status \in {400, 500}
    /\ response.error # NoValue
    /\ response.status = 500 => response.url = fallbackModels["default"]
    /\ response.status = 400 => response.url = NoValue /\ promptIsFalsy(body)

\* C14 witness: the 400 response to a request without prompt
C14_Witness ==
  /\ gpc = "done" /\ body.kind = "noPrompt"
  /\ response.status = 400 /\ response.error = "Prompt is required"
  /\ response.url = NoValue

\* C14 (original): every non-2xx response, the 400 response included,
\* carries an error string and the default asset URL.
C14_ErrorBodiesCarryUrl ==
  (gpc = "done" /\ response.status # 200) =>
    /\ response.error # NoValue
    /\ response.url = fallbackModels["default"]

(***************************************************************************)
(* Claims about loading and fallback (specification SpecLoad)              *)
(***************************************************************************)
\* attempt i receives a failure signal in this step: its 30 s timer fires or
\* its error callback runs
failsNow(i) ==
  \/ loads[i].timer = "armed" /\ loads'[i].timer = "fired"
  \/ loads[i].xhr = "inflight" /\ loads'[i].xhr = "failed"

\* the success callback of attempt i runs in this step
succeedsNow(i) == loads[i].xhr = "inflight" /\ loads'[i].xhr = "loaded"

\* no load of the default asset has failed or timed out
noDefaultFailure ==
  \A k \in 1..Len(loads) :
    loads[k].url = DefaultModelUrl
    => loads[k].xhr # "failed" /\ loads[k].timer # "fired"

\* the default asset is the template, shown as loaded without an error
defaultInstalled ==
  /\ modelRef # 0
  /\ objects[modelRef].url = DefaultModelUrl /\ ~objects[modelRef].clone
  /\ modelLoaded /\ modelLoadProgress = 100 /\ modelLoadError = "null"

C3_NoTemplateAfterDefaultFailure ==
  (/\ Len(loads) > 0
   /\ ~renderPending
   /\ loads[Len(loads)].url = DefaultModelUrl
   /\ loads[Len(loads)].xhr = "failed"
   /\ loads[Len(loads)].eff = cur
   /\ \A e \in 1..cur : effs[e].delay # "armed")
  => modelRef = 0 /\ ~modelLoaded /\ modelLoadError # "null"

\* nothing is pending: no re-render, no probe, no delayed start, no load
quiescent ==
  /\ ~renderPending
  /\ probes = 0
  /\ \A e \in 1..cur : effs[e].delay # "armed"
  /\ \A i \in 1..Len(loads) : loads[i].xhr # "inflight" /\ loads[i].timer # "armed"

\* the asset transport succeeded: every load ended in its success callback
transportSucceeded ==
  \A i \in 1..Len(loads) : loads[i].xhr = "loaded" /\ loads[i].timer = "cleared"

\* C7 (original): when spatial tracking is unavailable (no navigator.xr, the
\* probe answers unsupported, or the probe rejects) and the asset transport
\* succeeds, then once nothing is pending the component is in preview mode
\* (isXRSupported false) with the scene set up and the template loaded.
C7_PreviewLoadsTemplate ==
  (xrHost # "supported" /\ quiescent /\ transportSucceeded)
  => /\ isXRSupported = "false"
     /\ effs[cur].setup
     /\ modelLoaded /\ modelRef # 0

(***************************************************************************)
(* Claims about placement (specification Spec)                             *)
(***************************************************************************)
\* the duplicates among the objects
clones(objs) == {k \in 1..Len(objs) : objs[k].clone}

\* the objects that are children of a scene
inScene(objs) == {k \in 1..Len(objs) : objs[k].scene # 0}

\* C4: a step taken while the reticle is invisible or no template is
\* installed adds no placed instance and no duplicate, and a 'select'
\* dispatched then leaves every variable of the component unchanged.
C4_SelectWithoutTargetIsNoOp ==
  [][ ~(reticle.visible /\ modelRef # 0)
      => /\ placedObjects' = placedObjects
         /\ clones(objects') = clones(objects)
         /\ \A e \in 1..cur : onSelect(e) => UNCHANGED arVars
    ]_vars

\* C4 witness: a session is active with a hit-test source and a template,
\* the reticle is invisible, and nothing has been placed
C4_Witness ==
  /\ cur > 0 /\ effs[cur].session = "active"
  /\ hitTestSourceRef # 0 /\ modelRef # 0 /\ ~reticle.visible
  /\ placedObjects = << >> /\ clones(objects) = {}

\* C5: every step leaves the placed list as it is or appends exactly one
\* new object to its end, a duplicate added to the scene in that step; a
\* select with visible reticle and template does append; placed instances
\* stay in their scene; the list never holds an object twice.
C5_PlacedListAppendOnly ==
  [][ /\ \/ placedObjects' = placedObjects
         \/ /\ placedObjects' = Append(placedObjects, Len(objects) + 1)
            /\ Len(objects') = Len(objects) + 1
            /\ objects'[Len(objects')].clone
            /\ objects'[Len(objects')].scene # 0
      /\ \A e \in 1..cur :
           (onSelect(e) /\ reticle.visible /\ modelRef # 0)
           => Len(placedObjects') = Len(placedObjects) + 1
      /\ \A k \in 1..Len(placedObjects) :
           /\ k < Len(placedObjects) => placedObjects[k] < placedObjects[k + 1]
           /\ objects'[placedObjects[k]].scene = objects[placedObjects[k]].scene
           /\ objects[placedObjects[k]].scene # 0
    ]_vars

\* C5 witness: three placements, three distinct instances in placement order
C5_Witness ==
  /\ Len(placedObjects) = 3
  /\ placedObjects[1] < placedObjects[2] /\ placedObjects[2] < placedObjects[3]
  /\ \A k \in 1..3 : objects[placedObjects[k]].clone
                     /\ placedObjects[k] \in inScene(objects)

\* the object a step appends to the placed list
newPlaced == objects'[placedObjects'[Len(placedObjects')]]

\* C6 (as amended): a successful placement gives the duplicate the position
\* of the pose matrix that the most recent tracked frame copied into the
\* reticle and makes it visible; the duplicate's orientation is the
\* template's, not the reticle's.
C6_PlacedAtReticlePosition ==
  [][ Len(placedObjects') > Len(placedObjects)
      => /\ reticle.visible
         /\ newPlaced.pos = reticle.pos
         /\ newPlaced.pos \in {p.pos : p \in Poses}
         /\ newPlaced.rot = objects[modelRef].rot
         /\ newPlaced.visible
    ]_vars

\* C6 witness: an instance placed at the position of a pose whose
\* orientation it does not have
C6_Witness ==
  \E k \in 1..Len(placedObjects) :
    /\ objects[placedObjects[k]].pos = "p2"
    /\ objects[placedObjects[k]].rot # 3
    /\ reticle = [visible |-> TRUE, pos |-> "p2", rot |-> 3]

\* C6 (original): the duplicate's position and orientation both equal those
\* of the reticle's pose matrix, and the duplicate is visible.
C6_PlacedAtReticlePose ==
  [][ Len(placedObjects') > Len(placedObjects)
      => /\ newPlaced.pos = reticle.pos
         /\ newPlaced.rot = reticle.rot
         /\ newPlaced.visible
    ]_vars

(***************************************************************************)
(* Claims about tracked frames (specification SpecTrack)                   *)
(***************************************************************************)
\* a session is running and has rendered a tracked frame
trackedFrameRendered ==
  cur > 0 /\ effs[cur].session = "active" /\ frame # NoFrame

\* C15 (original): after a tracked frame the reticle is visible exactly when
\* the frame supplied a hit-test result with a pose, and then it has that
\* pose; a frame with no result, with a result without usable pose, or
\* rendered without hit-test source leaves the reticle invisible.
C15_ReticleVisibleIffHit ==
  (trackedFrameRendered /\ frame.kind # "throws") =>
    IF frame.kind = "hit"
    THEN reticle = [visible |-> TRUE, pos |-> frame.pose.pos,
                    rot |-> frame.pose.rot]
    ELSE ~reticle.visible

\* attempt i has been superseded: loadModel was called again in the same run
\* of the effect while attempt i was in flight
superseded(i) ==
  \E j \in (i + 1)..Len(loads) : loads[j].eff = loads[i].eff

\* a success, error or progress callback of attempt i fires
callbackOf(i) ==
  \/ loadSuccess(i)
  \/ loadError(i)
  \/ \E percent \in ProgressValues : loadProgress(i, percent)

\* C17 (original): every success, progress or error callback of a superseded
\* load that fires after the newer loadModel call is a no-op: modelRef, the
\* load progress, the loaded flag and the load error stay as the newer load
\* left them.
C17_StaleCallbacksAreNoOps ==
  [][\A i \in 1..Len(loads) :
       (superseded(i) /\ callbackOf(i)) =>
         UNCHANGED <<modelRef, modelLoadProgress, modelLoaded,
                     modelLoadError>>]_vars

\* the load attempts started because attempt i failed or timed out
fallbacksOf(i) == {j \in 1..Len(loads) : loads[j].from = i}

\* C18 (original): one loadModel(url) request with a non-default url starts
\* the default-asset load at most once, whatever failure signals arrive for
\* the attempt, so that a request triggers at most two load attempts.
C18_OneFallbackPerAttempt ==
  \A i \in 1..Len(loads) :
    loads[i].url # DefaultModelUrl => Cardinality(fallbacksOf(i)) <= 1

\* the template models that are children of the scene of run e
templatesIn(e) ==
  {k \in 1..Len(objects) : ~objects[k].clone /\ objects[k].scene = e}

\* C19 (original): in every reachable state a scene contains at most one
\* template model (a loaded asset that is not a placed duplicate).
C19_AtMostOneTemplate ==
  \A e \in 1..cur : Cardinality(templatesIn(e)) <= 1

\* a load has been requested and no template is installed
loading == Len(loads) > 0 /\ modelRef = 0

\* the step calls loadModel, or runs the effect: both reset the progress
resetsProgress == Len(loads') > Len(loads) \/ Len(effs') > Len(effs)

\* C20 (original): from the load request that resets the progress to 0 until
\* a template is installed, the displayed progress stays within 0..100 and
\* never decreases, and it is 100 when the template is installed.
C20_ProgressMonotone ==
  [][(loading /\ ~resetsProgress) =>
       /\ modelLoadProgress' \in 0..100
       /\ modelLoadProgress' >= modelLoadProgress
       /\ (modelRef' # 0 => modelLoadProgress' = 100)]_vars

(***************************************************************************)
(* The imagine-ar sample                                                   *)
(***************************************************************************)
\* a session of the current run of the sample is running and rendering
sampleSessionActive ==
  cur > 0 /\ effs[cur].session = "active" /\ ~effs[cur].cleaned

\* a hit-test source has been requested or obtained
sourceRequested == hitReqs # {} \/ hitTestSourceRef # 0

\* C16: in the imagine-ar sample, once an AR session has started and the
\* platform keeps reporting surface hits, a hit-test source is eventually
\* requested and the reticle eventually becomes visible (so that a tap can
\* place a copy), unless the session ends first.
C16_SessionLeadsToReticle ==
  sampleSessionActive ~>
    (~sampleSessionActive \/ (sourceRequested /\ reticle.visible))

(***************************************************************************)
(* Teardown                                                                *)
(***************************************************************************)
\* a callback registered by run e of the effect fires: its delayed load
\* start, a timeout or loader callback of one of its loads, its hit-test
\* source promise, its 'sessionend' listener or its 'select' listener
callbackOfRun(e) ==
  \/ delayFires(e)
  \/ \E i \in 1..Len(loads) :
       loads[i].eff = e /\ (loadTimeout(i) \/ callbackOf(i))
  \/ \E ok \in BOOLEAN : hitTestSourceSettles(e, ok)
  \/ sessionEnd(e)
  \/ onSelect(e)

\* C21 (original): after the cleanup of a run of the effect no callback that
\* the run registered changes the template, the load progress, the load
\* error, the hit-test source or the placed list.
C21_EndedIsTerminal ==
  [][\A e \in 1..cur :
       (effs[e].cleaned /\ callbackOfRun(e)) =>
         UNCHANGED <<modelRef, modelLoadProgress, modelLoadError,
                     hitTestSourceRef, placedObjects>>]_vars

\* the buttons of the document as a set
buttonSet == {buttons[k] : k \in 1..Len(buttons)}

\* a run of the effect has been cleaned up
tornDown == \E e \in 1..cur : effs[e].cleaned

\* C28 (original): teardown removes from the document only the AR button of
\* the run it belongs to: the button of the prompt form is still in the
\* document after every teardown.
C28_TeardownKeepsPageButtons ==
  tornDown => GenerateButton \in buttonSet

\* what the cleanup function acts on: the buttons of the document, the
\* hit-test source and the session held by the refs, with the number of
\* cancel() and end() calls made so far
world ==
  [buttons |-> buttons, source |-> hitTestSourceRef, session |-> sessionRef,
   cancels |-> 0, ends |-> 0]

\* the cleanup function: the first button is removed, a hit-test source is
\* cancelled and its ref cleared, and a session still held by sessionRef is
\* ended (the ref is cleared by 'sessionend' only)
teardown(w) ==
  [buttons |-> removeFirstButton(w.buttons),
   source  |-> 0,
   session |-> w.session,
   cancels |-> IF w.source # 0 THEN w.cancels + 1 ELSE w.cancels,
   ends    |-> IF w.session # 0 THEN w.ends + 1 ELSE w.ends]

\* a run of the effect is set up and not yet cleaned up
mounted == cur > 0 /\ effs[cur].setup /\ ~effs[cur].cleaned

\* C22 (original): running the teardown a second time changes nothing
\* compared with running it once: no further button is removed and no
\* subscription is cancelled or session ended twice.
C22_TeardownIdempotent ==
  mounted => teardown(teardown(world)) = teardown(world)

\* the AR start buttons in the document
arButtons == {k \in 1..Len(buttons) : buttons[k].kind = "ar"}

\* C29: the document holds at most one AR start button, and the AR button
\* that a run of the effect appended is no longer in the document once the
\* run has been cleaned up, across every sequence of probe results,
\* model-URL changes and teardowns.
C29_AtMostOneARButton ==
  /\ Cardinality(arButtons) <= 1
  /\ \A e \in 1..cur : effs[e].cleaned => arButton(e) \notin buttonSet

\* a run that appended an AR button has been torn down and the run after it
\* has appended its own
C29_Witness ==
  /\ cur > 1
  /\ effs[cur - 1].cleaned /\ effs[cur - 1].setup
  /\ effs[cur - 1].capXR = "true"
  /\ arButton(cur) \in buttonSet

(***************************************************************************)
(* Placed instances, rotation, hit-test source                             *)
(***************************************************************************)
\* C23: the pose of a placed instance is changed by no later step: tracked
\* frames, untracked ticks, further placements and the replacement of the
\* template leave the position and rotation of every placed instance as
\* they were.
C23_PlacedPoseFrozen ==
  [][\A k \in clones(objects) :
       /\ k <= Len(objects')
       /\ objects'[k].pos = objects[k].pos
       /\ objects'[k].rot = objects[k].rot]_vars

\* an instance was placed, the reticle has moved on to another pose and a
\* further instance has been placed
C23_Witness ==
  /\ Len(placedObjects) >= 2
  /\ reticle.visible
  /\ \E k \in clones(objects) : objects[k].pos # reticle.pos

\* the template is rotated by the step
templateRotates ==
  /\ modelRef # 0 /\ modelRef' = modelRef
  /\ objects'[modelRef].rot # objects[modelRef].rot

\* the current run renders untracked frames with a template installed
\* (whose rotation the model still follows)
untrackedWithTemplate ==
  /\ ~renderPending
  /\ effs[cur].setup /\ ~effs[cur].cleaned
  /\ effs[cur].session # "active"
  /\ modelRef # 0
  /\ objects[modelRef].rot < MaxTicks

\* C24 (as amended): the template is rotated only by an untracked frame of a
\* run of the effect that did not see isXRSupported true; the rotation
\* advances by one increment (0.005) and changes neither the reticle nor the
\* placed list; a tracked frame never rotates the template.
C24_RotationOnlyWithoutXR ==
  [][templateRotates =>
       /\ effs[cur].capXR # "true"
       /\ effs[cur].session # "active"
       /\ objects'[modelRef].rot = objects[modelRef].rot + 1
       /\ UNCHANGED <<reticle, placedObjects>>]_vars

\* a template has been rotated
C24_Witness == modelRef # 0 /\ objects[modelRef].rot > 0

\* C24 (original): on every rendered frame that is not a tracked frame an
\* installed template's rotation advances, whatever the capability probe
\* reported.
C24_RotatesWhateverTheProbe ==
  untrackedWithTemplate => ENABLED renderTick(cur)

\* C25 (original): the hit-test source reference is non-null only while the
\* AR session that obtained it is active.
C25_SourceOnlyWhileActive ==
  hitTestSourceRef # 0 => effs[hitTestSourceRef].session = "active"

\* C26 (original): the loaded flag and the template agree in every
\* reachable state: modelLoaded is true exactly when modelRef is non-null.
C26_LoadedIffTemplate ==
  modelLoaded <=> (modelRef # 0)

\* C27 (original): once the effect has rebuilt the scene, every object of
\* the placed list is a child of the scene that is rendered.
C27_PlacedInCurrentScene ==
  ~renderPending =>
    \A k \in 1..Len(placedObjects) : objects[placedObjects[k]].scene = cur

(***************************************************************************)
(* Part 3 - the page: handleGenerate                                       *)
(***************************************************************************)
\* handlePromptChange: the input is disabled while loading
handlePromptChange(p) ==
  /\ ~page.loading
  /\ p # page.prompt
  /\ page' = [page EXCEPT !.prompt = p]
  /\ UNCHANGED <<gpc, apiKey, body, aiAnswer, aiCalls, response>>
  /\ UNCHANGED arVars

\* handleGenerate from the click to its await of fetch
started(p) ==
  IF trimIsEmpty(p.prompt)
  THEN [p EXCEPT !.error = PromptError]
  ELSE [p EXCEPT !.loading = TRUE, !.error = NoError, !.modelUrl = "null",
                 !.pc = "fetching"]

\* the click on the Generate button, which is disabled while loading and
\* while the prompt is blank
handleGenerate ==
  /\ page.pc = "idle"
  /\ ~(page.loading \/ trimIsEmpty(page.prompt))
  /\ page' = started(page)
  /\ UNCHANGED <<gpc, apiKey, body, aiAnswer, aiCalls, response>>
  /\ UNCHANGED arVars

\* the catch block followed by the finally block
failed(p, detail, status) ==
  [p EXCEPT !.error = generateError(detail, status), !.modelUrl = "null",
            !.loading = FALSE, !.pc = "idle"]

\* response.ok
ok(data) == data.status \in 200..299

\* handleGenerate from the settlement of fetch to its end; checksOk is
\* whether the `!response.ok` test is made
settledWith(p, o, checksOk) ==
  IF o.kind = "rejects"
  THEN failed(p, "Failed to fetch", 0)
  ELSE IF ~o.json
  THEN failed(p, "Unexpected token", 0)
  ELSE IF checksOk /\ ~ok(o.data)
  THEN IF o.data.error # NoValue
       THEN failed(p, o.data.error, 0)
       ELSE failed(p, "API error: ", o.data.status)
  ELSE IF o.data.url # NoValue
  THEN [p EXCEPT !.modelUrl = o.data.url,
                 !.modelDescription = IF o.data.description = NoValue
                                      THEN "null" ELSE o.data.description,
                 !.aiGenerated = (o.data.aiGenerated = "true"),
                 !.modelType = IF o.data.modelType = NoValue
                               THEN "null" ELSE o.data.modelType,
                 !.loading = FALSE, !.pc = "idle"]
  ELSE failed(p, "No model URL returned from API", 0)

\* a handler that takes the body of any response for the model
settled_ignoresStatus(p, o) == settledWith(p, o, FALSE)

settled(p, o) == settledWith(p, o, TRUE)

\* the fetch of the request in flight settles and handleGenerate runs to its
\* end
fetchSettles(o) ==
  /\ page.pc = "fetching"
  /\ page' = [settled(page, o) EXCEPT !.last = o]
  /\ UNCHANGED <<gpc, apiKey, body, aiAnswer, aiCalls, response>>
  /\ UNCHANGED arVars

PageNext ==
  \/ \E p \in PagePrompts : handlePromptChange(p)
  \/ handleGenerate
  \/ \E o \in PageOutcomes : fetchSettles(o)

InitPage ==
  GenIdle /\ ARInit /\ xrHost = "supported" /\ modelUrl = DefaultModelUrl

SpecPage == InitPage /\ [][PageNext]_vars

\* a 2xx response whose body gives a url
succeeded(o) ==
  o.kind = "response" /\ o.json /\ ok(o.data) /\ o.data.url # NoValue

\* C30: while a request is in flight loading is true; once it has finished
\* loading is false, and either the request got a 2xx response with a url,
\* the model URL is that url and no error is shown, or it ended otherwise
\* (network error, non-2xx response even with the default url in its body,
\* response without url), the model URL is null and an error is shown.
C30_GenerateOutcome ==
  /\ page.pc = "fetching" => page.loading
  /\ (page.pc = "idle" /\ page.last # NoOutcome) =>
       /\ ~page.loading
       /\ IF succeeded(page.last)
          THEN /\ page.modelUrl = page.last.data.url
               /\ page.modelUrl # "null"
               /\ ~page.error.shown
          ELSE /\ page.modelUrl = "null"
               /\ page.error.shown

\* a request has ended with the 500 response of the endpoint, whose body
\* carries the default url, after an earlier request had succeeded
C30_Witness ==
  /\ page.pc = "idle"
  /\ page.last.kind = "response" /\ page.last.json
  /\ page.last.data = errorResponse
  /\ page.modelDescription # "null"
  /\ page.modelUrl = "null" /\ page.error.shown

====
